---- MODULE Spec2Model ----
(***************************************************************************)
(* A model of the dungeon layout generator of dungeon.py: room placement   *)
(* under a density budget (getDungeonRooms, placeRoom), the L-shaped       *)
(* corridor carver (placeDungeonPath) and the modified Prim connector      *)
(* (makeDungeonPaths), sequenced by getDungeon.                            *)
(*                                                                         *)
(* The grid is dungeon[x][y] with 0-based indexes, as in the source.  The  *)
(* draws of the random generator are inputs: every value random.randint    *)
(* can return is a possible draw.  Every list access of the source is      *)
(* replayed with Python's list indexing: an index in [-len, 0) wraps to    *)
(* the end of the list, an index outside [-len, len) raises IndexError and *)
(* abandons the call.                                                      *)
(***************************************************************************)
EXTENDS Integers, Sequences, FiniteSets, TLC

VARIABLES
    pc,               \* position in getDungeon (or in a direct carver call)
    xlength, ylength, \* the grid's dimensions (arguments)
    density,          \* the density argument, a rational <<num, den>>
    draws,            \* how the random draws are enumerated: "free" | "packed"
    dungeon,          \* the grid: dungeon[x][y] \in {ROOM, STONE, WALL}
    placedArea,       \* getDungeonRooms: nominal area placed so far
    room_list,        \* room centers, in placement order
    connected_rooms,  \* makeDungeonPaths: the rooms in the span tree
    distances,        \* makeDungeonPaths: the dict, in insertion order
    i,                \* makeDungeonPaths: the loop counter
    err,              \* "none", or the exception that ended the call
    warned,           \* the "500 paths placed" message was printed
    oob,              \* some list index used so far lay outside [0, len)
    rooms,            \* history: <<x0, y0, height, width>> of each placed room
    roomsGrid,        \* history: the grid as getDungeonRooms returned it
    links,            \* history: <<d, source, room>> of each link carved, in order
    call,             \* the arguments <<x0, y0, x1, y1>> of the last carver call
    bend              \* the bend <<midX, midY>> of the last carver call

vars == <<pc, xlength, ylength, density, draws, dungeon, placedArea, room_list,
          connected_rooms, distances, i, err, warned, oob, rooms, roomsGrid,
          links, call, bend>>

(***************************************************************************)
(* Program constants.                                                      *)
(***************************************************************************)
ROOM == 0
STONE == 1
WALL == 2
\* getDungeon: "Minimum size 5x5"
MinSize == 5
\* getDungeonRooms: max_room_height, max_room_width, the smallest room side
max_room_height == 15
max_room_width == 15
MinRoomSide == 2
\* getDungeonRooms: int(scale * length / 3) with scale = 0.5 is length \div 6
ScaleDivisor == 6
\* makeDungeonPaths: the loop breaks once i > 500
MaxPaths == 500

(***************************************************************************)
(* Bounds of the model.                                                    *)
(***************************************************************************)
\* largest xlength and ylength of the exhaustively explored grids
MaxX == 5
MaxY == 7
\* largest nominal area target density * xlength * ylength explored
MaxTarget == 12
\* largest grid length for which the corner ranges are enumerated
MaxLength == 120

Max(a, b) == IF a >= b THEN a ELSE b
Min(a, b) == IF a <= b THEN a ELSE b

\* range(a, b) as a sequence
PyRange(a, b) == [k \in 1..(b - a) |-> a + k - 1]

\* random.randint(a, b): every integer of [a, b]
RandInt(a, b) == a..b

(***************************************************************************)
(* List accesses.  An access is [op, x, y]: "set" is dungeon[x][y] = ROOM, *)
(* "dress" is the read of dungeon[x][y] followed by the write of WALL when *)
(* the cell holds STONE.  A machine state m is [g, err, oob].              *)
(***************************************************************************)
SetOp(x, y) == [op |-> "set", x |-> x, y |-> y]
DressOp(x, y) == [op |-> "dress", x |-> x, y |-> y]

\* Python accepts index k on a list of length n iff -n <= k < n
IndexOk(k, n) == k >= -n /\ k < n
\* and reads a negative index from the end
PyIndex(k, n) == IF k < 0 THEN n + k ELSE k

Access(m, o) ==
    LET xl == Len(m.g)
        yl == IF xl = 0 THEN 0 ELSE Len(m.g[1])
    IN  IF m.err # "none" THEN m
        ELSE IF ~IndexOk(o.x, xl) \/ ~IndexOk(o.y, yl)
        THEN [m EXCEPT !.err = "IndexError", !.oob = TRUE]
        ELSE LET x == PyIndex(o.x, xl) + 1
                 y == PyIndex(o.y, yl) + 1
             IN  [g   |-> [m.g EXCEPT ![x][y] =
                             IF o.op = "set" THEN ROOM
                             ELSE IF @ = STONE THEN WALL ELSE @],
                  err |-> "none",
                  oob |-> m.oob \/ o.x < 0 \/ o.y < 0]

\* The one element of a set of one element.  Intermediate results are bound as
\* the element of a singleton, so that each is computed once.
The(S) == CHOOSE v \in S : TRUE

\* the accesses ops[lo..hi], one after the other; an exception ends them
RECURSIVE Exec(_, _, _, _)
Exec(m, ops, lo, hi) ==
    IF lo > hi THEN m
    ELSE IF lo = hi THEN Access(m, ops[lo])
    ELSE The({The({IF left.err # "none" THEN left ELSE Exec(left, ops, mid + 1, hi) :
                      left \in {Exec(m, ops, lo, mid)}}) :
              mid \in {(lo + hi) \div 2}})

Run(m, ops) == The({Exec(m, list, 1, Len(list)) : list \in {ops}})

\* the accesses of a loop, in the order they are made: iteration j makes the
\* n accesses bodies[j]
Flat(bodies, n) ==
    [k \in 1..(n * Len(bodies)) |-> bodies[((k - 1) \div n) + 1][((k - 1) % n) + 1]]

\* for a in as: for b in bs: the pairs (a, b) in the order the loops visit them
Nested(as, bs) ==
    [k \in 1..(Len(as) * Len(bs)) |->
        <<as[((k - 1) \div Len(bs)) + 1], bs[((k - 1) % Len(bs)) + 1]>>]

NewGrid(xl, yl) == [x \in 1..xl |-> [y \in 1..yl |-> STONE]]

\* dungeon[x][y] of the source (0-based) on a grid g
Cell(g, x, y) == g[x + 1][y + 1]

(***************************************************************************)
(* dist: Euclidean distance rounded down to int.                           *)
(***************************************************************************)
\* int(n ** .5) for n >= 0, a root known to lie in low..high
ISqrt(n, low, high) == CHOOSE r \in low..high : r * r <= n /\ n < (r + 1) * (r + 1)

Abs(a) == IF a < 0 THEN -a ELSE a

\* int(((x1-x0)**2 + (y1-y0)**2)**.5); the root is at least the longer leg and
\* at most the sum of the legs
dist(x0, y0, x1, y1) ==
    ISqrt((x1 - x0) * (x1 - x0) + (y1 - y0) * (y1 - y0),
          Max(Abs(x1 - x0), Abs(y1 - y0)), Abs(x1 - x0) + Abs(y1 - y0))

(***************************************************************************)
(* placeRoom: the ROOM cells, then WALL on the ring around them.           *)
(***************************************************************************)
\* a variant that leaves out the last row of the room
RoomFloorOps_ShortRow(x0, y0, height, width) ==
    LET cells == Nested(PyRange(x0, x0 + height - 1), PyRange(y0, y0 + width))
    IN  [k \in 1..Len(cells) |-> SetOp(cells[k][1], cells[k][2])]

RoomFloorOps(x0, y0, height, width) ==
    LET cells == Nested(PyRange(x0, x0 + height), PyRange(y0, y0 + width))
    IN  [k \in 1..Len(cells) |-> SetOp(cells[k][1], cells[k][2])]

RoomRingOps(x0, y0, height, width) ==
    LET xs == PyRange(x0 - 1, x0 + height + 1)
        ys == PyRange(y0 - 1, y0 + width + 1)
    IN  Flat([k \in 1..Len(xs) |->
                 <<DressOp(xs[k], y0 - 1), DressOp(xs[k], y0 + width)>>], 2)
        \o Flat([k \in 1..Len(ys) |->
                    <<DressOp(x0 - 1, ys[k]), DressOp(x0 + height, ys[k])>>], 2)

placeRoom(m, x0, y0, height, width) ==
    Run(m, RoomFloorOps(x0, y0, height, width) \o RoomRingOps(x0, y0, height, width))

(***************************************************************************)
(* getDungeonRooms: sizes, corners and the density loop.                   *)
(***************************************************************************)
\* max(min(int(scale * length / 3), cap), 2)
MaxRoomSide(length, cap) == Max(Min(length \div ScaleDivisor, cap), MinRoomSide)

\* random.randint(2, max(min(int(scale * length / 3), cap), 2))
RoomSides(length, cap) == RandInt(MinRoomSide, MaxRoomSide(length, cap))

\* a variant that forgets the margin: random.randint(1, length - side)
Corners_NoMargin(length, side) == RandInt(1, length - side)

\* random.randint(1, length - 1 - side)
Corners(length, side) == RandInt(1, length - 1 - side)

\* while placedArea < intensity * totalArea, with density = num / den
MoreRooms(area, dens, xl, yl) == area * dens[2] < dens[1] * (xl * yl)

\* x += int(room_height / 2); y += int(room_width / 2)
Center(x, y, height, width) == <<x + (height \div 2), y + (width \div 2)>>

(***************************************************************************)
(* The grid sizes at which the 500-path valve can fire, and one stream of  *)
(* draws that reaches it: ValveDim is the least square grid whose area, at *)
(* density 1, takes more than MaxPaths + 2 rooms of the smallest size.     *)
(* The packed stream draws the smallest room every time, puts the first    *)
(* room in the far corner and the following ones side by side, one cell    *)
(* apart, in rows of PackRow.                                              *)
(***************************************************************************)
ValveDim ==
    CHOOSE d \in MinSize..(MaxPaths + MinSize) :
        /\ d * d > MinRoomSide * MinRoomSide * (MaxPaths + 2)
        /\ (d - 1) * (d - 1) <= MinRoomSide * MinRoomSide * (MaxPaths + 2)

PackRow == ValveDim \div 2

\* the draws of the k-th room (k from 0): the values left of each randint range
DrawSide(S, k) == IF draws = "free" THEN S ELSE {MinRoomSide} \cap S

DrawX(S, k) ==
    IF draws = "free" THEN S
    ELSE {IF k = 0 THEN ValveDim - 1 - MinRoomSide ELSE 1 + ((k - 1) % PackRow)} \cap S

DrawY(S, k) ==
    IF draws = "free" THEN S
    ELSE {IF k = 0 THEN ValveDim - 1 - MinRoomSide ELSE 1 + ((k - 1) \div PackRow)} \cap S

(***************************************************************************)
(* Inputs.                                                                 *)
(***************************************************************************)
\* the densities n/8 of [0, 1]: exact as floats, and so are their products
Densities == {<<n, 8>> : n \in 0..8}

NoCall == <<0, 0, 0, 0>>

Idle ==
    /\ dungeon = <<>>
    /\ placedArea = 0
    /\ room_list = <<>>
    /\ connected_rooms = <<>>
    /\ distances = <<>>
    /\ i = 0
    /\ err = "none"
    /\ warned = FALSE
    /\ oob = FALSE
    /\ rooms = <<>>
    /\ roomsGrid = <<>>
    /\ links = <<>>
    /\ call = NoCall
    /\ bend = <<0, 0>>

\* getDungeon(xlength, ylength, density, seed) on the small grids, any draws
InitSmall ==
    /\ pc = "call"
    /\ draws = "free"
    /\ xlength \in (MinSize - 1)..MaxX
    /\ ylength \in (MinSize - 1)..MaxY
    /\ density \in Densities
    /\ density[1] * (xlength * ylength) <= MaxTarget * density[2]
    /\ Idle

\* getDungeon(ValveDim, ValveDim, 1.0, seed) on the packed stream of draws
InitValve ==
    /\ pc = "call"
    /\ draws = "packed"
    /\ xlength = ValveDim
    /\ ylength = ValveDim
    /\ density = <<1, 1>>
    /\ Idle

\* getDungeon(WideDim, 5, 1/16, seed), any draws: the least xlength at which a
\* room height above the smallest can be drawn
WideDim == (MinRoomSide + 1) * ScaleDivisor

InitWide ==
    /\ pc = "call"
    /\ draws = "free"
    /\ xlength = WideDim
    /\ ylength = MinSize
    /\ density = <<1, 16>>
    /\ Idle

\* placeDungeonPath(dungeon, x0, y0, x1, y1) called on a grid of STONE with any
\* two points of the grid
InitPath ==
    /\ pc = "path"
    /\ draws = "free"
    /\ xlength \in MinSize..MaxX
    /\ ylength \in MinSize..MaxY
    /\ density = <<0, 8>>
    /\ dungeon = NewGrid(xlength, ylength)
    /\ call \in (0..(xlength - 1)) \X (0..(ylength - 1)) \X (0..(xlength - 1)) \X (0..(ylength - 1))
    /\ placedArea = 0
    /\ room_list = <<>>
    /\ connected_rooms = <<>>
    /\ distances = <<>>
    /\ i = 0
    /\ err = "none"
    /\ warned = FALSE
    /\ oob = FALSE
    /\ rooms = <<>>
    /\ roomsGrid = <<>>
    /\ links = <<>>
    /\ bend = <<0, 0>>

Init == InitSmall \/ InitWide

(***************************************************************************)
(* getDungeon.                                                             *)
(***************************************************************************)
\* if (xlength < 5 or ylength < 5): print("Error! ..."); return [[]]
getDungeonInvalid ==
    /\ pc = "call"
    /\ xlength < MinSize \/ ylength < MinSize
    /\ pc' = "invalid"
    /\ dungeon' = << <<>> >>
    /\ UNCHANGED <<xlength, ylength, density, draws, placedArea, room_list,
                   connected_rooms, distances, i, err, warned, oob, rooms,
                   roomsGrid, links, call, bend>>

\* getDungeonRooms up to its loop: the grid of STONE, placedArea = 0, room_list = []
getDungeonRoomsStart ==
    /\ pc = "call"
    /\ ~(xlength < MinSize \/ ylength < MinSize)
    /\ pc' = "rooms"
    /\ dungeon' = NewGrid(xlength, ylength)
    /\ placedArea' = 0
    /\ room_list' = <<>>
    /\ UNCHANGED <<xlength, ylength, density, draws, connected_rooms, distances,
                   i, err, warned, oob, rooms, roomsGrid, links, call, bend>>

\* one iteration of the loop of getDungeonRooms
getDungeonRoomsStep ==
    /\ pc = "rooms"
    /\ MoreRooms(placedArea, density, xlength, ylength)
    /\ LET k == Len(room_list) IN
       \E room_height \in DrawSide(RoomSides(xlength, max_room_height), k),
          room_width \in DrawSide(RoomSides(ylength, max_room_width), k) :
         LET xs == DrawX(Corners(xlength, room_height), k)
             ys == DrawY(Corners(ylength, room_width), k)
         IN  IF Corners(xlength, room_height) = {} \/ Corners(ylength, room_width) = {}
             THEN \* random.randint on an empty range raises ValueError
                  /\ pc' = "error"
                  /\ err' = "ValueError"
                  /\ UNCHANGED <<dungeon, placedArea, room_list, oob, rooms>>
             ELSE \E x \in xs, y \in ys :
                    \E m \in {placeRoom([g |-> dungeon, err |-> "none", oob |-> oob],
                                        x, y, room_height, room_width)} :
                        /\ dungeon' = m.g
                        /\ oob' = m.oob
                        /\ err' = m.err
                        /\ rooms' = Append(rooms, <<x, y, room_height, room_width>>)
                        /\ IF m.err # "none"
                           THEN /\ pc' = "error"
                                /\ UNCHANGED <<placedArea, room_list>>
                           ELSE /\ pc' = "rooms"
                                /\ placedArea' = placedArea + room_height * room_width
                                /\ room_list' = Append(room_list,
                                                       Center(x, y, room_height, room_width))
    /\ UNCHANGED <<xlength, ylength, density, draws, connected_rooms, distances,
                   i, warned, roomsGrid, links, call, bend>>

(***************************************************************************)
(* placeDungeonPath.                                                       *)
(***************************************************************************)
\* if x0 >= x1 and y0 >= y1: swap the two points
Ordered(x0, y0, x1, y1) ==
    IF x0 >= x1 /\ y0 >= y1 THEN <<x1, y1, x0, y0>> ELSE <<x0, y0, x1, y1>>

\* a variant that always bends at (x0, y1)
Bend_AlwaysX0Y1(x0, y0, x1, y1) == <<x0, y1>>

\* (midX, midY), from the points as ordered
Bend(x0, y0, x1, y1) == IF x0 < x1 THEN <<x1, y0>> ELSE <<x0, y1>>

\* a variant that dresses one side only of a segment along x
AlongX_OneSide(x, y) == <<SetOp(x, y), DressOp(x, y - 1), DressOp(x, y - 1)>>

\* the body of a loop along x at fixed y, and of a loop along y at fixed x
AlongX(x, y) == <<SetOp(x, y), DressOp(x, y - 1), DressOp(x, y + 1)>>
AlongY(x, y) == <<SetOp(x, y), DressOp(x - 1, y), DressOp(x + 1, y)>>

\* for x in xs, at fixed y; for y in ys, at fixed x
ForX(xs, y) == Flat([k \in 1..Len(xs) |-> AlongX(xs[k], y)], 3)
ForY(x, ys) == Flat([k \in 1..Len(ys) |-> AlongY(x, ys[k])], 3)

\* Draw path from (x0,y0) to (midX, midY), then from (midX, midY) to (x1, y1)
SegmentOps(x0, y0, x1, y1, midX, midY) ==
    ForX(PyRange(Min(x0, midX), Max(x0 + 1, midX + 1)), y0)
    \o ForY(x0, PyRange(Min(y0, midY), Max(Max(midY + 1, y0), 1)))
    \o ForX(PyRange(Min(midX, x1), Max(midX + 1, x1 + 1)), y1)
    \o ForY(x1, PyRange(Min(midY, y1), Max(Max(midY + 1, y1), 1)))

\* Replace STONE around (cx, cy) with WALL, on a grid of xl lists of length yl
BoxOps(cx, cy, xl, yl) ==
    LET cells == Nested(PyRange(Max(0, cx - 1), Min(cx + 2, xl)),
                        PyRange(Max(0, cy - 1), Min(cy + 2, yl)))
    IN  [k \in 1..Len(cells) |-> DressOp(cells[k][1], cells[k][2])]

PathOps(x0, y0, x1, y1, xl, yl) ==
    IF x0 = x1 /\ y0 = y1 THEN <<>>
    ELSE LET p == Ordered(x0, y0, x1, y1)
             mid == Bend(p[1], p[2], p[3], p[4])
         IN  SegmentOps(p[1], p[2], p[3], p[4], mid[1], mid[2])
             \o BoxOps(p[1], p[2], xl, yl)
             \o BoxOps(mid[1], mid[2], xl, yl)
             \o BoxOps(p[3], p[4], xl, yl)

placeDungeonPath(m, x0, y0, x1, y1) ==
    Run(m, PathOps(x0, y0, x1, y1, Len(m.g), IF Len(m.g) = 0 THEN 0 ELSE Len(m.g[1])))

\* the bend of the call; midX = midY = 0 when there is no path to draw
BendOf(x0, y0, x1, y1) ==
    IF x0 = x1 /\ y0 = y1 THEN <<0, 0>>
    ELSE LET p == Ordered(x0, y0, x1, y1) IN Bend(p[1], p[2], p[3], p[4])

(***************************************************************************)
(* makeDungeonPaths.  The dict distances is the sequence of its entries    *)
(* [room, d, src] in insertion order, which is the order Python iterates.  *)
(***************************************************************************)
Entry(room, d, src) == [room |-> room, d |-> d, src |-> src]

\* for room in room_list: distances[room] = (dist(seed, room), seed).  A key set
\* again keeps the place of its first insertion, so the dict holds one entry for
\* each distinct room, in the order of first occurrence.
InitialDistances(list, seed) ==
    The({[p \in 1..Len(firsts) |->
             Entry(list[firsts[p]],
                   dist(seed[1], seed[2], list[firsts[p]][1], list[firsts[p]][2]),
                   seed)] :
         firsts \in {SelectSeq([k \in 1..Len(list) |-> k],
                               LAMBDA k : \A j \in 1..(k - 1) : list[j] # list[k])}})

\* a variant that takes the entry inserted first, whatever its distance
Closest_First(dict) == 1

\* the scan "if distances[key][0] < closest_room_source[0] or closest_room_source[0] < 0"
\* keeps the first entry of the least d: the index of that entry
Closest(dict) ==
    The({CHOOSE k \in 1..Len(dict) :
             dict[k].d = least /\ \A j \in 1..(k - 1) : dict[j].d # least :
         least \in {The({CHOOSE d \in ds : \A e \in ds : d <= e :
                         ds \in {{dict[k].d : k \in 1..Len(dict)}}})}})

\* distances.pop(key) for the key at index k
DictPop(dict, k) == [j \in 1..(Len(dict) - 1) |-> IF j < k THEN dict[j] ELSE dict[j + 1]]

\* a variant that never re-points a tentative link
Relink_Never(e, closest_room) == e

\* if this_room_dist <= distances[room][0]: distances[room] = (this_room_dist, closest_room)
Relink(e, closest_room) ==
    LET this_room_dist == dist(closest_room[1], closest_room[2], e.room[1], e.room[2])
    IN  IF this_room_dist <= e.d THEN Entry(e.room, this_room_dist, closest_room) ELSE e

\* a variant that breaks one link early: if i >= 500
Valve_AtLimit(n) == n >= MaxPaths

\* if i > 500: print("Error! ..."); break
Valve(n) == n > MaxPaths

\* room_list.pop(-1) and the dict of the distances to it
makeDungeonPathsStart ==
    /\ pc = "rooms"
    /\ ~MoreRooms(placedArea, density, xlength, ylength)
    /\ roomsGrid' = dungeon
    /\ IF room_list = <<>>
       THEN \* pop from empty list
            /\ pc' = "error"
            /\ err' = "IndexError"
            /\ UNCHANGED <<room_list, connected_rooms, distances>>
       ELSE LET seed == room_list[Len(room_list)]
                rest == SubSeq(room_list, 1, Len(room_list) - 1)
            IN  /\ pc' = "loop"
                /\ err' = "none"
                /\ room_list' = rest
                /\ connected_rooms' = <<seed>>
                /\ distances' = InitialDistances(rest, seed)
    /\ i' = 0
    /\ UNCHANGED <<xlength, ylength, density, draws, dungeon, placedArea, warned,
                   oob, rooms, links, call, bend>>

\* one iteration of "while len(distances)"
makeDungeonPathsStep ==
    /\ pc = "loop"
    /\ Len(distances) # 0
    /\ \E k \in {Closest(distances)} :
       \E closest_room \in {distances[k].room}, source \in {distances[k].src} :
       \E popped \in {DictPop(distances, k)},
          m \in {placeDungeonPath([g |-> dungeon, err |-> "none", oob |-> oob],
                                  source[1], source[2],
                                  closest_room[1], closest_room[2])} :
           /\ i' = i + 1
           /\ links' = Append(links, <<distances[k].d, source, closest_room>>)
           /\ call' = <<source[1], source[2], closest_room[1], closest_room[2]>>
           /\ bend' = BendOf(source[1], source[2], closest_room[1], closest_room[2])
           /\ dungeon' = m.g
           /\ oob' = m.oob
           /\ err' = m.err
           /\ IF m.err # "none"
              THEN /\ pc' = "error"
                   /\ distances' = popped
                   /\ UNCHANGED <<connected_rooms, warned>>
              ELSE /\ connected_rooms' = Append(connected_rooms, closest_room)
                   /\ distances' = [j \in 1..Len(popped) |-> Relink(popped[j], closest_room)]
                   /\ warned' = Valve(i + 1)
                   /\ pc' = IF Valve(i + 1) THEN "done" ELSE "loop"
    /\ UNCHANGED <<xlength, ylength, density, draws, placedArea, room_list, rooms,
                   roomsGrid>>

\* the loop ends with the dict empty; getDungeon returns the grid
getDungeonReturn ==
    /\ pc = "loop"
    /\ Len(distances) = 0
    /\ pc' = "done"
    /\ UNCHANGED <<xlength, ylength, density, draws, dungeon, placedArea, room_list,
                   connected_rooms, distances, i, err, warned, oob, rooms, roomsGrid,
                   links, call, bend>>

\* a direct call of placeDungeonPath with the arguments call
placeDungeonPathCall ==
    /\ pc = "path"
    /\ \E m \in {placeDungeonPath([g |-> dungeon, err |-> "none", oob |-> oob],
                                  call[1], call[2], call[3], call[4])} :
           /\ dungeon' = m.g
           /\ oob' = m.oob
           /\ err' = m.err
           /\ pc' = IF m.err # "none" THEN "error" ELSE "carved"
    /\ bend' = BendOf(call[1], call[2], call[3], call[4])
    /\ UNCHANGED <<xlength, ylength, density, draws, placedArea, room_list,
                   connected_rooms, distances, i, warned, rooms, roomsGrid, links,
                   call>>

Next ==
    \/ getDungeonInvalid
    \/ getDungeonRoomsStart
    \/ getDungeonRoomsStep
    \/ makeDungeonPathsStart
    \/ makeDungeonPathsStep
    \/ getDungeonReturn

\* getDungeon on the small grids and on the wide grid, every draw
Spec == Init /\ [][Next]_vars

\* the positions at which the program has a next step: Next is enabled there,
\* and only there
Running == pc \in {"call", "rooms", "loop"}

\* The source is one thread that waits for nothing: a step that can be taken is
\* taken.  This is WF_vars(Next), with ENABLED <<Next>>_vars written as Running.
Fairness == <>[]Running => []<><<Next>>_vars

\* getDungeon on the small grids, the wide grid and the valve grid
ValveSpec == (Init \/ InitValve) /\ [][Next]_vars /\ Fairness

\* direct calls of the carver
PathSpec == InitPath /\ [][placeDungeonPathCall]_vars

(***************************************************************************)
(* Vocabulary of the properties.                                           *)
(***************************************************************************)
InGrid(c, xl, yl) == c[1] >= 0 /\ c[1] < xl /\ c[2] >= 0 /\ c[2] < yl

Coords(xl, yl) == (0..(xl - 1)) \X (0..(yl - 1))

\* the Floor cells of a full xlength x ylength grid g
Floor(g) == {c \in Coords(xlength, ylength) : Cell(g, c[1], c[2]) = ROOM}

Adjacent4(c) ==
    {<<c[1] - 1, c[2]>>, <<c[1] + 1, c[2]>>, <<c[1], c[2] - 1>>, <<c[1], c[2] + 1>>}

\* the cells a 4-connected walk over Floor cells reaches from seen
RECURSIVE Flood(_, _, _)
Flood(g, seen, frontier) ==
    IF frontier = {} THEN seen
    ELSE LET next == {n \in UNION {Adjacent4(c) : c \in frontier} :
                         /\ InGrid(n, xlength, ylength)
                         /\ Cell(g, n[1], n[2]) = ROOM
                         /\ n \notin seen}
         IN  Flood(g, seen \cup next, next)

\* the room centers of the placement list
Centers == {Center(rooms[k][1], rooms[k][2], rooms[k][3], rooms[k][4]) : k \in 1..Len(rooms)}

\* the cells of the axis-aligned segment from a to b
Segment(a, b) ==
    (Min(a[1], b[1])..Max(a[1], b[1])) \X (Min(a[2], b[2])..Max(a[2], b[2]))

\* the L from a to b through the corner c
Ell(a, c, b) == Segment(a, c) \cup Segment(c, b)

\* no two placed rooms share a cell
NoOverlap ==
    \A a \in 1..Len(rooms), b \in 1..Len(rooms) :
        a < b =>
            \/ rooms[a][1] + rooms[a][3] <= rooms[b][1]
            \/ rooms[b][1] + rooms[b][3] <= rooms[a][1]
            \/ rooms[a][2] + rooms[a][4] <= rooms[b][2]
            \/ rooms[b][2] + rooms[b][4] <= rooms[a][2]

\* no Floor cell in the outermost rows and columns of the grid g
BorderClear(g) ==
    \A c \in Coords(xlength, ylength) :
        (c[1] = 0 \/ c[1] = xlength - 1 \/ c[2] = 0 \/ c[2] = ylength - 1)
            => Cell(g, c[1], c[2]) # ROOM

\* the number of room centers pending when the loop of makeDungeonPaths began
PendingAtStart == i + Len(distances)

(***************************************************************************)
(* C1.  A run of getDungeon whose room placement yields no room center or  *)
(* exactly one completes without an error, carves no corridor and returns  *)
(* the full xlength x ylength grid as room placement left it.              *)
(***************************************************************************)
C1_FewRoomsComplete ==
    (pc \in {"loop", "done", "error"} /\ Len(rooms) <= 1) =>
        /\ err = "none"
        /\ links = <<>>
        /\ dungeon = roomsGrid
        /\ Len(dungeon) = xlength
        /\ \A x \in 1..Len(dungeon) : Len(dungeon[x]) = ylength

(***************************************************************************)
(* C2.  When getDungeon has returned with two or more rooms placed, every  *)
(* room center of the placement list is Floor and a 4-connected walk over  *)
(* Floor cells leads from the first center to every other.                 *)
(***************************************************************************)
C2_CentersConnected ==
    (pc = "done" /\ Len(rooms) >= 2) =>
        /\ \A c \in Centers : Cell(dungeon, c[1], c[2]) = ROOM
        /\ LET first == Center(rooms[1][1], rooms[1][2], rooms[1][3], rooms[1][4])
           IN  Centers \subseteq Flood(dungeon, {first}, {first})

(***************************************************************************)
(* C3.  In the grid getDungeon returns, no STONE cell is 4-adjacent to a   *)
(* ROOM cell.                                                              *)
(***************************************************************************)
C3_WallContainment ==
    pc = "done" =>
        \A c \in Coords(xlength, ylength) :
            Cell(dungeon, c[1], c[2]) = STONE =>
                \A n \in Adjacent4(c) :
                    InGrid(n, xlength, ylength) => Cell(dungeon, n[1], n[2]) # ROOM

\* a returned grid with an L-shaped corridor carved and STONE left on it
C3_Witness ==
    /\ pc = "done"
    /\ links # <<>>
    /\ bend # <<call[1], call[2]>> /\ bend # <<call[3], call[4]>>
    /\ \E c \in Coords(xlength, ylength) : Cell(dungeon, c[1], c[2]) = STONE

(***************************************************************************)
(* C4, as stated.  The number of Floor cells of the returned grid is at    *)
(* least density * xlength * ylength minus the overshoot placedArea -      *)
(* density * xlength * ylength of the last placed room, overlapping rooms  *)
(* included.  (Both sides are multiplied by the density's denominator.)    *)
(***************************************************************************)
C4_FloorDensity ==
    pc = "done" =>
        Cardinality(Floor(dungeon)) * density[2] >=
            density[1] * (xlength * ylength)
                - (placedArea * density[2] - density[1] * (xlength * ylength))

(***************************************************************************)
(* C4, amended.  When getDungeon returns, the nominal area placed (the sum *)
(* of height * width over the placed rooms, a cell counted once for every  *)
(* room that covers it) is at least density * xlength * ylength and was    *)
(* below it before the last room; the number of Floor cells is at least    *)
(* that nominal area when no two placed rooms overlap.                     *)
(***************************************************************************)
C4_NominalArea ==
    pc = "done" =>
        /\ ~MoreRooms(placedArea, density, xlength, ylength)
        /\ rooms # <<>> =>
               MoreRooms(placedArea - rooms[Len(rooms)][3] * rooms[Len(rooms)][4],
                         density, xlength, ylength)
        /\ NoOverlap => Cardinality(Floor(dungeon)) >= placedArea

\* a returned grid of rooms that do not overlap, joined by a corridor that
\* adds Floor cells to theirs
C4_Witness ==
    /\ pc = "done"
    /\ Len(rooms) >= 2
    /\ NoOverlap
    /\ density[1] > 0
    /\ Cardinality(Floor(dungeon)) > placedArea

(***************************************************************************)
(* C5.  A call of placeDungeonPath with two distinct points of the grid    *)
(* uses no list index outside [0, xlength) x [0, ylength), and so raises   *)
(* no IndexError.                                                          *)
(***************************************************************************)
C5_AccessesClamped ==
    (pc \in {"carved", "error"}
       /\ <<call[1], call[2]>> # <<call[3], call[4]>>) =>
        ~oob /\ err = "none"

(***************************************************************************)
(* C6, as stated.  A call with x0 < x1 and y0 > y1 bends at (x0, y1): the  *)
(* cells turned Floor are the segment from (x0, y0) to (x0, y1) and the    *)
(* segment from (x0, y1) to (x1, y1).                                      *)
(***************************************************************************)
C6_BendsAtX0Y1 ==
    (pc = "carved" /\ call[1] < call[3] /\ call[2] > call[4]) =>
        /\ bend = <<call[1], call[4]>>
        /\ Floor(dungeon) =
               Ell(<<call[1], call[2]>>, <<call[1], call[4]>>, <<call[3], call[4]>>)

(***************************************************************************)
(* C6, amended.  A call with x0 < x1 and y0 > y1 is not swapped, takes the *)
(* branch x0 < x1 and bends at (x1, y0): the cells turned Floor lie on the *)
(* segment from (x0, y0) to (x1, y0) and the segment from (x1, y0) to      *)
(* (x1, y1), and are all of them when the call returns.  The bend (x0, y1) *)
(* is the one of a call with x0 > x1 and y0 < y1.                          *)
(***************************************************************************)
C6_BendsAtX1Y0 ==
    /\ (pc \in {"carved", "error"} /\ call[1] < call[3] /\ call[2] > call[4]) =>
           /\ bend = <<call[3], call[2]>>
           /\ Floor(dungeon) \subseteq
                  Ell(<<call[1], call[2]>>, <<call[3], call[2]>>, <<call[3], call[4]>>)
           /\ pc = "carved" =>
                  Floor(dungeon) =
                      Ell(<<call[1], call[2]>>, <<call[3], call[2]>>, <<call[3], call[4]>>)
    /\ (pc \in {"carved", "error"} /\ call[1] > call[3] /\ call[2] < call[4]) =>
           bend = <<call[1], call[4]>>

\* a call with x0 < x1 and y0 > y1 that returned, both legs longer than one cell
C6_Witness ==
    /\ pc = "carved"
    /\ call[1] + 1 < call[3]
    /\ call[2] > call[4] + 1
    /\ bend = <<call[3], call[2]>>

(***************************************************************************)
(* C7, as stated.  The truncated length of each carved link is never       *)
(* smaller than the length of the link carved in the iteration before.     *)
(***************************************************************************)
C7_IncreasingLinks ==
    \A k \in 1..(Len(links) - 1) : links[k][1] <= links[k + 1][1]

(***************************************************************************)
(* C7, amended.  Each iteration carves the tentative link that is least    *)
(* among the pending room centers at that iteration: the link carved is an *)
(* entry of the dict and no entry of the dict has a smaller distance.  (A  *)
(* link can be shorter than the one carved before it.)                     *)
(***************************************************************************)
C7_CarvesLeastLink ==
    [][(pc = "loop" /\ Len(links') = Len(links) + 1) =>
          LET l == links'[Len(links')]
          IN  /\ \E k \in 1..Len(distances) : distances[k] = Entry(l[3], l[1], l[2])
              /\ \A k \in 1..Len(distances) : l[1] <= distances[k].d]_vars

\* a run in which a link shorter than the one before it was carved
C7_Witness ==
    \E k \in 1..(Len(links) - 1) : links[k + 1][1] < links[k][1]

(***************************************************************************)
(* C8.  At the start of every iteration of the loop of makeDungeonPaths,   *)
(* every pending room center r with tentative link (d, src) has src in the *)
(* connected rooms, d = dist(src, r), and d least among the distances from *)
(* r to the connected rooms.                                               *)
(***************************************************************************)
C8_TentativeLinks ==
    pc = "loop" =>
        \A k \in 1..Len(distances) :
            LET e == distances[k]
            IN  /\ \E c \in 1..Len(connected_rooms) : connected_rooms[c] = e.src
                /\ e.d = dist(e.src[1], e.src[2], e.room[1], e.room[2])
                /\ \A c \in 1..Len(connected_rooms) :
                       e.d <= dist(connected_rooms[c][1], connected_rooms[c][2],
                                   e.room[1], e.room[2])

\* an iteration starts with a pending room linked to a room that joined later
\* than the seed
C8_Witness ==
    /\ pc = "loop"
    /\ Len(connected_rooms) >= 2
    /\ \E k \in 1..Len(distances) :
           /\ distances[k].src # connected_rooms[1]
           /\ distances[k].d >= 1

(***************************************************************************)
(* C9.  For every length >= 5 and every room side that can be drawn for it *)
(* the corner range [1, length - 1 - side] is not empty; every placed room *)
(* lies inside the grid with a margin of one cell on all sides; room       *)
(* placement uses no index outside the grid and raises nothing; and after  *)
(* room placement no cell of the outermost rows and columns is Floor.      *)
(***************************************************************************)
C9_RoomsInsideMargin ==
    /\ pc = "call" =>
           \A length \in MinSize..MaxLength :
               /\ \A side \in RoomSides(length, max_room_height) :
                      Corners(length, side) # {}
               /\ \A side \in RoomSides(length, max_room_width) :
                      Corners(length, side) # {}
    /\ \A k \in 1..Len(rooms) :
           /\ rooms[k][1] >= 1 /\ rooms[k][1] + rooms[k][3] <= xlength - 1
           /\ rooms[k][2] >= 1 /\ rooms[k][2] + rooms[k][4] <= ylength - 1
    /\ pc = "rooms" => ~oob /\ err = "none" /\ BorderClear(dungeon)
    /\ pc = "error" => roomsGrid # <<>>
    /\ pc \in {"loop", "done"} => BorderClear(roomsGrid)

\* rooms placed, one of them higher than the smallest and up against the margin
C9_Witness ==
    /\ pc = "loop"
    /\ \E k \in 1..Len(rooms) :
           /\ rooms[k][3] > MinRoomSide
           /\ rooms[k][1] + rooms[k][3] = xlength - 1

(***************************************************************************)
(* C10.  The loop of makeDungeonPaths terminates: every iteration removes  *)
(* exactly one room center from the pending ones and carves one link, to   *)
(* that room; the call ends with no room pending or by the valve, once     *)
(* more than MaxPaths links are carved; and the valve does not fire when   *)
(* at most MaxPaths room centers were pending at the start.                *)
(***************************************************************************)
C10_Terminates ==
    /\ [][(pc = "loop" /\ i' = i + 1) =>
             /\ Len(distances') = Len(distances) - 1
             /\ Len(links') = Len(links) + 1
             /\ links'[Len(links')][3] \in {distances[k].room : k \in 1..Len(distances)}
             /\ {distances'[k].room : k \in 1..Len(distances')} =
                    {distances[k].room : k \in 1..Len(distances)}
                        \ {links'[Len(links')][3]}]_vars
    /\ [](pc = "done" => (Len(distances) = 0 \/ (warned /\ Len(links) > MaxPaths)))
    /\ [](warned => PendingAtStart > MaxPaths)
    /\ [](pc = "loop" => <>(pc = "done"))

\* the valve ended the loop with room centers still pending
C10_Witness ==
    /\ pc = "done"
    /\ warned
    /\ Len(distances) > 0
    /\ Len(links) = MaxPaths + 1

====
